---- MODULE Spec2Model ----
(***************************************************************************)
(* cincan-command: the provenance queries of CommandInspector (fanin and   *)
(* fanout over the command log) and the command run of ToolImage that      *)
(* produces the log entries.                                               *)
(*                                                                         *)
(* A query is modelled as the explicit call stack of the recursive Python  *)
(* methods: one frame per active fanin/fanout call, the shared             *)
(* already_covered set, and the dependency tree under construction.  Tree  *)
(* nodes are addressed by their position: the sequence of child indexes    *)
(* that leads from the root (<<>>) to the node, so the k-th element of a   *)
(* node's `next` list is at position Append(pos, k).                       *)
(***************************************************************************)
EXTENDS Integers, Sequences, FiniteSets, TLC

VARIABLES
    log,              \* CommandLogIndex: the entries, in insertion order
    disk,             \* host file system: path -> md5 of its content, "" when not a regular file
    pc,               \* "idle" | "query" | "done"
    out,              \* direction of the running query: TRUE fanout, FALSE fanin
    stack,            \* call stack of fanin/fanout, innermost call last
    already_covered,  \* the visited set shared by the calls of one query
    tree,             \* nodes built so far (the result when pc = "done")
    hashed,           \* paths handed to hash_of during the running query
    cuts,             \* positions of the FileDependency nodes returned by the visited check
    run               \* one command run of ToolImage: its inputs, its locals and its position

vars == <<log, disk, pc, out, stack, already_covered, tree, hashed, cuts, run>>

----------------------------------------------------------------------------
(* Bounds of the model *)

(* a Store holds at most MaxRecords file records in all, in at most
   MaxEntries entries of at most MaxFiles records per file collection *)
MaxRecords == 4
MaxEntries == MaxRecords \div 2
MaxFiles == MaxRecords \div 2

(* Paths are sequences of components; an absolute path starts with "/". *)
PathA == <<"/", "w", "a">>
PathStdout == <<"/", "dev", "stdout">>
Paths == {PathA, PathStdout}
work_dir == <<"/", "w">>

(* md5 hex digests; "" is what hash_of gives for a file that is not regular *)
Digests == {"", "d1", "d2"}

None == "None"

FileLog(path, md5) == [path |-> path, md5 |-> md5]
(* the records of the model: the work file with either content or unhashed,
   and the standard output stream with the first content *)
FileLogs == {FileLog(PathA, d) : d \in Digests} \cup {FileLog(PathStdout, "d1")}

SeqsUpTo(S, n) == UNION {[1..k -> S] : k \in 0..n}

CommandLog == [in_files : SeqsUpTo(FileLogs, MaxFiles), out_files : SeqsUpTo(FileLogs, MaxFiles)]

RECURSIVE Records(_)
Records(l) ==
    IF Len(l) = 0 THEN 0
    ELSE Len(l[1].in_files) + Len(l[1].out_files) + Records(Tail(l))

Stores == {l \in SeqsUpTo(CommandLog, MaxEntries) : Records(l) <= MaxRecords}

(* the work file is absent or holds the first content; /dev/stdout is a
   character device: is_file() is false for it *)
Disks == {d \in [Paths -> {"", "d1"}] : d[PathStdout] = ""}

----------------------------------------------------------------------------
(* pathlib helpers *)

RECURSIVE JoinParts(_)
JoinParts(parts) ==
    IF Len(parts) = 0 THEN ""
    ELSE IF Len(parts) = 1 THEN parts[1]
    ELSE parts[1] \o "/" \o JoinParts(Tail(parts))

as_posix(path) ==
    IF Len(path) > 0 /\ path[1] = "/"
    THEN "/" \o JoinParts(Tail(path))
    ELSE JoinParts(path)

IsPrefix(p, q) == Len(p) <= Len(q) /\ SubSeq(q, 1, Len(p)) = p

(* Path.resolve() of an absolute path without "." and "..": the symbolic
   links are followed, and on the host /dev/stdout is one, to the file
   descriptor of the process *)
resolve(path) ==
    IF IsPrefix(PathStdout, path)
    THEN <<"/", "proc", "self", "fd", "1">> \o SubSeq(path, Len(PathStdout) + 1, Len(path))
    ELSE path

(* __work_path without the test for /dev/ *)
work_path_no_dev(path) ==
    IF IsPrefix(work_dir, path) THEN SubSeq(path, Len(work_dir) + 1, Len(path))
    ELSE resolve(path)

work_path(path) ==
    IF IsPrefix(<<"/", "dev">>, path) /\ Len(path) > 2 THEN path
    ELSE IF IsPrefix(work_dir, path) THEN SubSeq(path, Len(work_dir) + 1, Len(path))
    ELSE resolve(path)

hash_of(file) == disk[file]

list_entries(reverse) ==
    IF reverse THEN [i \in 1..Len(log) |-> Len(log) + 1 - i]
    ELSE [i \in 1..Len(log) |-> i]

(* the scan in insertion order: list_entries(reverse=False) *)
scan_order_forward == list_entries(FALSE)

(* self.log.list_entries(reverse=True) *)
scan_order == list_entries(TRUE)

----------------------------------------------------------------------------
(* Dependency tree nodes *)

FileDependency(pos, file, digest, o) ==
    [pos |-> pos, kind |-> "file", file |-> file, digest |-> digest, command |-> 0, out |-> o]

(* the node of fanin built by fanout too: out=False in both *)
CommandDependencyIn(pos, cmd, o) ==
    [pos |-> pos, kind |-> "cmd", file |-> <<>>, digest |-> "", command |-> cmd, out |-> FALSE]

CommandDependency(pos, cmd, o) ==
    [pos |-> pos, kind |-> "cmd", file |-> <<>>, digest |-> "", command |-> cmd, out |-> o]

(* fanout matching on the output files as fanin does *)
MatchFilesOut(cmd, o) == log[cmd].out_files

(* the file collection an entry is matched on, and the one descended into *)
MatchFiles(cmd, o) == IF o THEN log[cmd].in_files ELSE log[cmd].out_files
NextFiles(cmd, o) == IF o THEN log[cmd].out_files ELSE log[cmd].in_files

(* a match on any entry that has files, whatever their digests *)
digest_here_any(files, file_digest) == Len(files) > 0

(* a match on the first record of the collection only *)
digest_here_first(files, file_digest) == Len(files) > 0 /\ files[1].md5 = file_digest

(* any(filter(lambda f: f.md5 == file_digest, files)) *)
digest_here(files, file_digest) == \E i \in 1..Len(files) : files[i].md5 = file_digest

(* digest or self.hash_of(file): None and "" are both false in Python *)
file_digest_of(file, digest) == IF digest # None /\ digest # "" THEN digest ELSE hash_of(file)

file_check_of(file, file_digest) == as_posix(file) \o ":" \o file_digest

Frame(file, digest, pos) ==
    [file |-> file, digest |-> digest, pos |-> pos, phase |-> "enter",
     ci |-> 1, fi |-> 1, n |-> 0]

Top == stack[Len(stack)]
Pop == SubSeq(stack, 1, Len(stack) - 1)
SetTop(f) == [stack EXCEPT ![Len(stack)] = f]

Return ==
    /\ stack' = Pop
    /\ pc' = IF Len(stack) = 1 THEN "done" ELSE "query"

(* no command run in progress *)
NoRun == [rpc |-> "none"]

(* CommandLogWriter.write: the entry is added at the end of the Store *)
write(entries, cmd) == Append(entries, [in_files |-> cmd.in_files, out_files |-> cmd.out_files])

----------------------------------------------------------------------------
Init ==
    /\ log \in Stores
    /\ disk \in Disks
    /\ pc = "idle"
    /\ out = FALSE
    /\ stack = <<>>
    /\ already_covered = {}
    /\ tree = {}
    /\ hashed = {}
    /\ cuts = {}
    /\ run = NoRun

(* a query that goes on with the visited set of the query before *)
QueryKeepCovered(o, file, digest) ==
    /\ pc \in {"idle", "done"}
    /\ pc' = "query"
    /\ out' = o
    /\ stack' = <<Frame(file, digest, <<>>)>>
    /\ tree' = {}
    /\ hashed' = {}
    /\ cuts' = {}
    /\ UNCHANGED <<log, disk, run, already_covered>>

(* inspector.fanin(file) / inspector.fanout(file), called with or without a digest *)
Query(o, file, digest) ==
    /\ pc \in {"idle", "done"}
    /\ pc' = "query"
    /\ out' = o
    /\ stack' = <<Frame(file, digest, <<>>)>>
    /\ already_covered' = {}
    /\ tree' = {}
    /\ hashed' = {}
    /\ cuts' = {}
    /\ UNCHANGED <<log, disk, run>>

(* the head of fanin/fanout without the visited check *)
EnterNoCheck ==
    /\ pc = "query"
    /\ Top.phase = "enter"
    /\ LET f == Top
           file_digest == file_digest_of(f.file, f.digest)
           file_dep == FileDependency(f.pos, work_path(f.file), file_digest, out)
           file_check == file_check_of(f.file, file_digest)
       IN /\ tree' = tree \cup {file_dep}
          /\ hashed' = IF f.digest # None /\ f.digest # "" THEN hashed ELSE hashed \cup {f.file}
          /\ already_covered' = already_covered \cup {file_check}
          /\ stack' = SetTop([f EXCEPT !.digest = file_digest, !.phase = "scan"])
    /\ UNCHANGED <<log, disk, pc, out, cuts, run>>

(* the head of fanin/fanout: digest, node, visited check *)
Enter ==
    /\ pc = "query"
    /\ Top.phase = "enter"
    /\ LET f == Top
           file_digest == file_digest_of(f.file, f.digest)
           file_dep == FileDependency(f.pos, work_path(f.file), file_digest, out)
           file_check == file_check_of(f.file, file_digest)
       IN /\ tree' = tree \cup {file_dep}
          /\ hashed' = IF f.digest # None /\ f.digest # "" THEN hashed ELSE hashed \cup {f.file}
          /\ IF file_check \in already_covered
             THEN /\ Return
                  /\ cuts' = cuts \cup {f.pos}
                  /\ UNCHANGED already_covered
             ELSE /\ already_covered' = already_covered \cup {file_check}
                  /\ UNCHANGED cuts
                  /\ stack' = SetTop([f EXCEPT !.digest = file_digest, !.phase = "scan"])
                  /\ UNCHANGED pc
    /\ UNCHANGED <<log, disk, out, run>>

(* one iteration of `for cmd in self.log.list_entries(reverse=True)` up to the match test *)
Scan ==
    /\ pc = "query"
    /\ Top.phase = "scan"
    /\ LET f == Top
           entries == scan_order
       IN IF f.ci > Len(entries)
          THEN /\ Return
               /\ UNCHANGED tree
          ELSE LET cmd == entries[f.ci]
               IN IF digest_here(MatchFiles(cmd, out), f.digest)
                  THEN /\ tree' = tree \cup {CommandDependency(Append(f.pos, f.n + 1), cmd, out)}
                       /\ stack' = SetTop([f EXCEPT !.phase = "files", !.fi = 1])
                       /\ UNCHANGED pc
                  ELSE /\ stack' = SetTop([f EXCEPT !.ci = f.ci + 1])
                       /\ UNCHANGED <<tree, pc>>
    /\ UNCHANGED <<log, disk, out, already_covered, hashed, cuts, run>>

(* the file loop written as `while files: file = files.pop(0)`: it consumes
   the entry's file collection *)
DescendPop ==
    /\ pc = "query"
    /\ Top.phase = "files"
    /\ LET f == Top
           cmd == scan_order[f.ci]
           files == NextFiles(cmd, out)
       IN IF Len(files) > 0
          THEN /\ stack' = Append(SetTop([f EXCEPT !.fi = f.fi + 1]),
                                  Frame(files[1].path, files[1].md5,
                                        Append(Append(f.pos, f.n + 1), f.fi)))
               /\ log' = IF out THEN [log EXCEPT ![cmd].out_files = Tail(files)]
                                ELSE [log EXCEPT ![cmd].in_files = Tail(files)]
          ELSE /\ stack' = SetTop([f EXCEPT !.phase = "scan", !.ci = f.ci + 1, !.n = f.n + 1])
               /\ UNCHANGED log
    /\ UNCHANGED <<disk, pc, out, already_covered, tree, hashed, cuts, run>>

(* the file loop left after its first file *)
DescendFirstOnly ==
    /\ pc = "query"
    /\ Top.phase = "files"
    /\ LET f == Top
           cmd == scan_order[f.ci]
           files == NextFiles(cmd, out)
       IN IF f.fi <= Len(files) /\ f.fi = 1
          THEN stack' = Append(SetTop([f EXCEPT !.fi = f.fi + 1]),
                               Frame(files[f.fi].path, files[f.fi].md5,
                                     Append(Append(f.pos, f.n + 1), f.fi)))
          ELSE stack' = SetTop([f EXCEPT !.phase = "scan", !.ci = f.ci + 1, !.n = f.n + 1])
    /\ UNCHANGED <<log, disk, pc, out, already_covered, tree, hashed, cuts, run>>

(* one iteration of `for file in cmd.in_files` (cmd.out_files): the recursive call;
   after the last file, file_dep.next.append(cmd_dep) *)
Descend ==
    /\ pc = "query"
    /\ Top.phase = "files"
    /\ LET f == Top
           cmd == scan_order[f.ci]
           files == NextFiles(cmd, out)
       IN IF f.fi <= Len(files)
          THEN stack' = Append(SetTop([f EXCEPT !.fi = f.fi + 1]),
                               Frame(files[f.fi].path, files[f.fi].md5,
                                     Append(Append(f.pos, f.n + 1), f.fi)))
          ELSE stack' = SetTop([f EXCEPT !.phase = "scan", !.ci = f.ci + 1, !.n = f.n + 1])
    /\ UNCHANGED <<log, disk, pc, out, already_covered, tree, hashed, cuts, run>>

Next ==
    \/ \E o \in BOOLEAN, file \in Paths, digest \in (Digests \ {""}) \cup {None} : Query(o, file, digest)
    \/ Enter
    \/ Scan
    \/ Descend

Spec == Init /\ [][Next]_vars

----------------------------------------------------------------------------
(* The queries over recorded paths of every shape: absolute paths of up to
   MaxParts components below the root.  The Store holds one entry that made
   the work file from a file at such a path and from standard output. *)
MaxParts == 3
Parts == {"dev", "w", "a", "stdout"}
AnyPaths == {<<"/">> \o s : s \in SeqsUpTo(Parts, MaxParts)}

PathStores ==
    {<<[in_files |-> <<FileLog(p, "d1"), FileLog(PathStdout, "d1")>>,
        out_files |-> <<FileLog(PathA, "d2")>>]>> : p \in AnyPaths}

PathInit ==
    /\ log \in PathStores
    /\ disk \in Disks
    /\ pc = "idle"
    /\ out = FALSE
    /\ stack = <<>>
    /\ already_covered = {}
    /\ tree = {}
    /\ hashed = {}
    /\ cuts = {}
    /\ run = NoRun

PathNext ==
    \/ \E o \in BOOLEAN, digest \in {"d1", "d2"} : Query(o, PathA, digest)
    \/ Enter
    \/ Scan
    \/ Descend

PathSpec == PathInit /\ [][PathNext]_vars

----------------------------------------------------------------------------
(* fanin and fanout as the recursive functions they are: the nodes a call
   builds, the root of its subtree at position pos, and the visited set it
   leaves.  The Store is a parameter; entries are named by their index. *)

RECURSIVE fan(_, _, _, _, _, _)
RECURSIVE fan_scan(_, _, _, _, _, _, _)
RECURSIVE fan_files(_, _, _, _, _, _)

(* lines 52-58 (71-77), then the scan *)
fan(o, entries, file, digest, pos, covered) ==
    LET file_digest == file_digest_of(file, digest)
        file_dep == FileDependency(pos, work_path(file), file_digest, o)
        file_check == file_check_of(file, file_digest)
    IN IF file_check \in covered
       THEN [nodes |-> {file_dep}, covered |-> covered]
       ELSE LET r == fan_scan(o, entries, file_digest, pos, 1, 0, covered \cup {file_check})
            IN [nodes |-> {file_dep} \cup r.nodes, covered |-> r.covered]

(* lines 60-66 (79-85): the scan from the ci-th most recent entry on, n
   CommandDependency nodes already appended *)
fan_scan(o, entries, file_digest, pos, ci, n, covered) ==
    IF ci > Len(entries) THEN [nodes |-> {}, covered |-> covered]
    ELSE LET cmd == Len(entries) + 1 - ci
             here == IF o THEN entries[cmd].in_files ELSE entries[cmd].out_files
             files == IF o THEN entries[cmd].out_files ELSE entries[cmd].in_files
         IN IF digest_here(here, file_digest)
            THEN LET cmd_pos == Append(pos, n + 1)
                     below == fan_files(o, entries, files, cmd_pos, 1, covered)
                     rest == fan_scan(o, entries, file_digest, pos, ci + 1, n + 1, below.covered)
                 IN [nodes |-> {CommandDependency(cmd_pos, cmd, o)} \cup below.nodes \cup rest.nodes,
                     covered |-> rest.covered]
            ELSE fan_scan(o, entries, file_digest, pos, ci + 1, n, covered)

(* lines 64-65 (83-84): the recursive calls for the files from the fi-th on *)
fan_files(o, entries, files, cmd_pos, fi, covered) ==
    IF fi > Len(files) THEN [nodes |-> {}, covered |-> covered]
    ELSE LET first == fan(o, entries, files[fi].path, files[fi].md5, Append(cmd_pos, fi), covered)
             rest == fan_files(o, entries, files, cmd_pos, fi + 1, first.covered)
         IN [nodes |-> first.nodes \cup rest.nodes, covered |-> rest.covered]

----------------------------------------------------------------------------
(* Rendering: __str__ of the two node classes.  A text is the sequence of
   its lines. *)

(* the replace that leaves the lines as they are *)
indent_none(lines) == lines

(* str(s).replace('\n', '\n    '): every line after the first gets the margin *)
indent(lines) == [k \in 1..Len(lines) |-> IF k = 1 THEN lines[k] ELSE "    " \o lines[k]]

(* p without its line break *)
connector(n) ==
    IF n.kind = "file" THEN (IF n.out THEN "|-- " ELSE "^-- ")
    ELSE (IF n.out THEN "|-->" ELSE "^---")

(* " ".join(quote_args(self.command.command)): the argument vector of the
   entry, here the tool and the number of the entry *)
cmd_string(cmd) == "tool " \o ToString(cmd)

(* file_string: the digests of the model are shorter than 16 characters, so
   digest[:16] is the digest *)
file_string(n) == JoinParts(n.file) \o (IF n.digest # "" THEN " " \o n.digest ELSE "/")

RECURSIVE Flatten(_)
Flatten(texts) == IF Len(texts) = 0 THEN <<>> ELSE texts[1] \o Flatten(Tail(texts))

(* p + p.join(next_strings): each string starts a new line with the connector *)
join(p, next_strings) ==
    Flatten([k \in 1..Len(next_strings) |->
                <<p \o next_strings[k][1]>> \o Tail(next_strings[k])])

RECURSIVE str(_, _)
str(nodes, n) ==
    LET next == {c \in nodes : Len(c.pos) = Len(n.pos) + 1 /\ SubSeq(c.pos, 1, Len(n.pos)) = n.pos}
        at(k) == CHOOSE c \in next : c.pos[Len(c.pos)] = k
        next_strings == [k \in 1..Cardinality(next) |-> indent(str(nodes, at(k)))]
        label == IF n.kind = "file" THEN file_string(n) ELSE cmd_string(n.command)
    IN <<label>> \o join(connector(n), next_strings)

----------------------------------------------------------------------------
(* A command run: ToolImage.__run and ToolImage.__container_exec.          *)
(* The inputs of a run are drawn at its start and kept in run.env: the     *)
(* options of the tool, the bytes on the host's standard input, the frames *)
(* the container sends and how its stream ends, the exit code of the exec, *)
(* and what TarTool uploads and downloads.                                 *)

MaxStdin == 2
MaxFrames == 2
MaxPayload == 1

Byte == "x"
Bytes(n) == SeqsUpTo({Byte}, n)

(* what the container writes: "o" on its standard output, "e" on its
   standard error, "x" on a stream of another type *)
PayloadByte(type) == CASE type = 1 -> "o" [] type = 2 -> "e" [] OTHER -> "x"

RECURSIVE Text(_)
Text(bytes) == IF Len(bytes) = 0 THEN "" ELSE bytes[1] \o Text(Tail(bytes))

(* hashlib.md5: the state is the bytes given to update(), hexdigest() their hash *)
hexdigest(bytes) == "md5(" \o Text(bytes) \o ")"

PathStdin == <<"/", "dev", "stdin">>
PathStderr == <<"/", "dev", "stderr">>

(* frame types of the multiplexed stream: 1 stdout, 2 stderr, anything else *)
FrameTypes == {1, 2, 3}
Frames == UNION {[type : {t}, data : SeqsUpTo({PayloadByte(t)}, MaxPayload)] : t \in FrameTypes}
Endings == {"eof", "cut_header", "cut_payload"}
ExitCodes == {0, 1}

(* host files of the work directory *)
PathB == <<"/", "w", "b">>
(* upload_files of __run: the host files the resolver found in the arguments,
   in the order it found them, with the digests TarTool.upload records *)
Uploads == {<<>>, <<FileLog(PathB, "d1"), FileLog(PathA, "d1")>>}
(* the result of TarTool.download_files *)
Downloads == {<<>>, <<FileLog(PathB, "d2"), FileLog(PathA, "d2")>>}

(* the inputs of one run that are fixed when it starts *)
Envs ==
    [read_stdin : BOOLEAN, write_stdout : BOOLEAN, buffer_output : BOOLEAN,
     stdin_selectable : BOOLEAN, uploads : Uploads,
     stdin : Bytes(MaxStdin), frames : SeqsUpTo(Frames, MaxFrames)]

ToolStream == [none |-> FALSE, data_length |-> 0, md5 |-> <<>>, raw |-> <<>>, stream |-> <<>>]
(* the None that stands for a stream the run does not handle *)
NoStream == [ToolStream EXCEPT !.none = TRUE]

(* CommandLog as its constructor leaves it *)
NewLog == [exit_code |-> 0, in_files |-> <<>>, out_files |-> <<>>,
           stdin |-> <<>>, stdout |-> <<>>, stderr |-> <<>>]

update(s, data) == [s EXCEPT !.data_length = @ + Len(data), !.md5 = @ \o data]

NewRun(env) ==
    [rpc |-> "start", env |-> env,
     stdin_left |-> env.stdin, frames_left |-> env.frames,
     container |-> "none", in_files |-> <<>>,
     active_streams |-> <<>>, select_in |-> <<>>, c_socket_open |-> FALSE,
     stdin_s |-> NoStream, stdout_s |-> NoStream, stderr_s |-> NoStream,
     sent |-> <<>>, shut_wr |-> FALSE,
     cmd |-> NewLog,
     upload_files |-> <<>>, download_files |-> <<>>,
     before |-> [upload_files |-> <<>>, download_files |-> <<>>],
     returns |-> ""]

(* ToolImage before its constructor has run, and as the constructor leaves it *)
NoTool == [rpc |-> "new"]
NewTool == [rpc |-> "constructed", upload_files |-> <<>>, download_files |-> <<>>]

RunInit ==
    /\ run = NoTool
    /\ log = <<>>
    /\ disk \in {d \in Disks : d[PathA] = ""}
    /\ pc = "idle"
    /\ out = FALSE
    /\ stack = <<>>
    /\ already_covered = {}
    /\ tree = {}
    /\ hashed = {}
    /\ cuts = {}

NoQuery == UNCHANGED <<log, disk, pc, out, stack, already_covered, tree, hashed, cuts>>

(* self.client.images.pull and self.client.images.get of the docker library:
   the exception they raise for an image the registry (the local daemon)
   does not hold, "" when they return *)
images_pull(remote) == IF remote THEN "" ELSE "docker.errors.NotFound"
images_get(local) == IF local THEN "" ELSE "docker.errors.ImageNotFound"

(* __get_image: the exception that leaves it ("" when it returns); a pull
   that returned has loaded the image *)
get_image(pull, local, remote) ==
    IF pull
    THEN IF images_pull(remote) # "" THEN images_pull(remote) ELSE images_get(TRUE)
    ELSE images_get(local)

(* ToolImage.__init__ with image given: the exception that leaves the
   constructor, "" when it returns *)
init_image(pull, local, remote) ==
    IF pull
    THEN get_image(TRUE, local, remote)
    ELSE IF get_image(FALSE, local, remote) = "docker.errors.ImageNotFound"
         THEN get_image(TRUE, local, remote)
         ELSE get_image(FALSE, local, remote)

(* ToolImage(image=..., pull=...) *)
ToolImage_init ==
    /\ run.rpc = "new"
    /\ \E pull, local, remote \in BOOLEAN :
          LET exception == init_image(pull, local, remote)
          IN run' = IF exception = "" THEN NewTool
                    ELSE [rpc |-> "init_raised", pull |-> pull, local |-> local,
                          remote |-> remote, exception |-> exception]
    /\ NoQuery

(* tool.run(args) or tool.run_get_string(args): buffer_output is set, __run
   resolves the files to upload; the lists of the run before stay *)
run_start ==
    /\ run.rpc = "constructed"
    /\ \E env \in Envs :
          run' = [NewRun(env) EXCEPT
                    !.upload_files = run.upload_files,
                    !.download_files = run.download_files,
                    !.before = [upload_files |-> run.upload_files,
                                download_files |-> run.download_files]]
    /\ NoQuery

(* __create_container, called by __run before its try: create, start, and
   TarTool.upload, which fills the input files or raises on a file it cannot
   send; the exception leaves __run past the finally that kills *)
create_container ==
    /\ run.rpc = "start"
    /\ \E upload_raises \in (IF run.env.uploads = <<>> THEN {FALSE} ELSE BOOLEAN) :
          run' = IF upload_raises
                 THEN [run EXCEPT !.rpc = "raised", !.container = "running"]
                 ELSE [run EXCEPT !.rpc = "exec", !.container = "running",
                                  !.in_files = run.env.uploads]
    /\ NoQuery

(* __container_exec up to the io loop: the log, the streams, the active list *)
container_exec ==
    /\ run.rpc = "exec"
    /\ run' = [run EXCEPT
                 !.rpc = "select",
                 !.cmd = NewLog,
                 !.stdin_s = IF run.env.read_stdin THEN ToolStream ELSE NoStream,
                 !.stdout_s = IF run.env.write_stdout THEN ToolStream ELSE NoStream,
                 !.stderr_s = ToolStream,
                 !.active_streams = IF run.env.read_stdin THEN <<"socket", "stdin">>
                                                          ELSE <<"socket">>,
                 !.c_socket_open = TRUE]
    /\ NoQuery

Remove(seq, x) == LET Keep(y) == y # x IN SelectSeq(seq, Keep)
Range(seq) == {seq[i] : i \in DOMAIN seq}
Restrict(seq, S) == LET Keep(y) == y \in S IN SelectSeq(seq, Keep)

(* select.select(active_streams, [], []): the streams found readable, in the
   order of the list; with a standard input that select cannot take, the
   UnsupportedOperation branch drops it from the list *)
select ==
    /\ run.rpc = "select"
    /\ run.c_socket_open
    /\ run.select_in = <<>>
    /\ IF ~run.env.stdin_selectable /\ "stdin" \in Range(run.active_streams)
       THEN run' = [run EXCEPT !.active_streams = Remove(@, "stdin")]
       ELSE \E S \in (SUBSET Range(run.active_streams)) \ {{}} :
               run' = [run EXCEPT !.select_in = Restrict(run.active_streams, S)]
    /\ NoQuery

(* sel == sys.stdin: read a chunk; end of file closes the write half,
   a chunk is hashed and sent whole to the container *)
handle_stdin ==
    /\ run.rpc = "select"
    /\ run.select_in # <<>>
    /\ Head(run.select_in) = "stdin"
    /\ IF run.stdin_left = <<>>
       THEN run' = [run EXCEPT !.select_in = Tail(@),
                               !.active_streams = Remove(@, "stdin"),
                               !.shut_wr = TRUE]
       ELSE \E n \in 1..Len(run.stdin_left) :
               LET s_data == SubSeq(run.stdin_left, 1, n)
               IN run' = [run EXCEPT !.select_in = Tail(@),
                                     !.stdin_left = SubSeq(@, n + 1, Len(@)),
                                     !.stdin_s = update(@, s_data),
                                     !.sent = @ \o s_data]
    /\ NoQuery

(* __unpack_container_stream: the next frame as (type, payload); the end of
   the stream before or inside a header gives (0, empty); inside a payload
   it raises *)
unpack_container_stream(frames, ending) ==
    IF frames # <<>> THEN [raised |-> FALSE, s_type |-> Head(frames).type, s_data |-> Head(frames).data]
    ELSE IF ending = "cut_payload" THEN [raised |-> TRUE, s_type |-> 0, s_data |-> <<>>]
    ELSE [raised |-> FALSE, s_type |-> 0, s_data |-> <<>>]

(* std_s.update(s_data), then raw.extend or stream.write *)
deliver(std_s, s_data, buffer_output) ==
    IF std_s.none THEN std_s
    ELSE IF buffer_output
         THEN [update(std_s, s_data) EXCEPT !.raw = @ \o s_data]
         ELSE [update(std_s, s_data) EXCEPT !.stream = @ \o s_data]

(* sel == c_socket_sock: one frame; an empty payload ends the loop; an
   exception leaves through the finally of __run, which kills the container *)
handle_socket ==
    /\ run.rpc = "select"
    /\ run.select_in # <<>>
    /\ Head(run.select_in) = "socket"
    /\ \E ending \in (IF run.frames_left = <<>> THEN Endings ELSE {"eof"}) :
       LET u == unpack_container_stream(run.frames_left, ending)
       IN IF u.raised
          THEN run' = [run EXCEPT !.rpc = "raised", !.container = "killed"]
          ELSE IF u.s_data = <<>>
          THEN run' = [run EXCEPT !.select_in = Tail(@),
                                  !.frames_left = IF @ = <<>> THEN @ ELSE Tail(@),
                                  !.c_socket_open = FALSE]
          ELSE run' = [run EXCEPT
                         !.select_in = Tail(@),
                         !.frames_left = Tail(@),
                         !.stdout_s = IF u.s_type = 1
                                      THEN deliver(@, u.s_data, run.env.buffer_output) ELSE @,
                         !.stderr_s = IF u.s_type = 2
                                      THEN deliver(@, u.s_data, run.env.buffer_output) ELSE @]
    /\ NoQuery

(* the stream records with the standard error taken for the standard output *)
collect_hashes_mixed(exit_code, stdin_s, stdout_s, stderr_s) ==
    IF exit_code # 0 THEN [in_files |-> <<>>, out_files |-> <<>>]
    ELSE [in_files |-> IF ~stdin_s.none /\ stdin_s.data_length # 0
                       THEN <<FileLog(PathStdin, hexdigest(stdin_s.md5))>> ELSE <<>>,
          out_files |-> (IF ~stdout_s.none /\ stdout_s.data_length # 0
                         THEN <<FileLog(PathStdout, hexdigest(stdout_s.md5))>> ELSE <<>>)
                        \o (IF ~stdout_s.none /\ stdout_s.data_length # 0
                            THEN <<FileLog(PathStderr, hexdigest(stderr_s.md5))>> ELSE <<>>)]

(* collect stdin, stdout, stderr hash codes *)
collect_hashes(exit_code, stdin_s, stdout_s, stderr_s) ==
    IF exit_code # 0 THEN [in_files |-> <<>>, out_files |-> <<>>]
    ELSE [in_files |-> IF ~stdin_s.none /\ stdin_s.data_length # 0
                       THEN <<FileLog(PathStdin, hexdigest(stdin_s.md5))>> ELSE <<>>,
          out_files |-> (IF ~stdout_s.none /\ stdout_s.data_length # 0
                         THEN <<FileLog(PathStdout, hexdigest(stdout_s.md5))>> ELSE <<>>)
                        \o (IF ~stderr_s.none /\ stderr_s.data_length # 0
                            THEN <<FileLog(PathStderr, hexdigest(stderr_s.md5))>> ELSE <<>>)]

(* after the loop: exec_inspect, the raw data, the stream records *)
inspect ==
    /\ run.rpc = "select"
    /\ ~run.c_socket_open
    /\ run.select_in = <<>>
    /\ \E exit_code \in ExitCodes :
       LET h == collect_hashes(exit_code, run.stdin_s, run.stdout_s, run.stderr_s)
           raw(s) == IF ~s.none THEN s.raw ELSE <<>>
       IN run' = [run EXCEPT
                    !.rpc = "exec_done",
                    !.cmd = [@ EXCEPT
                               !.exit_code = exit_code,
                               !.stdin = IF run.env.buffer_output THEN raw(run.stdin_s) ELSE @,
                               !.stdout = IF run.env.buffer_output THEN raw(run.stdout_s) ELSE @,
                               !.stderr = IF run.env.buffer_output THEN raw(run.stderr_s) ELSE @,
                               !.in_files = @ \o h.in_files,
                               !.out_files = @ \o h.out_files]]
    /\ NoQuery

(* sorted() of a list of posix strings: the names of the model in string order *)
StringOrder == <<"/w/a", "/w/b", "a", "b">>
StringRank(x) == CHOOSE i \in DOMAIN StringOrder : StringOrder[i] = x

RECURSIVE Insert(_, _)
Insert(x, seq) ==
    IF Len(seq) = 0 THEN <<x>>
    ELSE IF StringRank(x) <= StringRank(seq[1]) THEN <<x>> \o seq
    ELSE <<seq[1]>> \o Insert(x, Tail(seq))

(* the list as it comes, not sorted *)
unsorted(seq) == seq

RECURSIVE sorted(_)
sorted(seq) == IF Len(seq) = 0 THEN <<>> ELSE Insert(seq[1], sorted(Tail(seq)))

(* f.path.relative_to(work_dir).as_posix() of the files not under /dev/ *)
RECURSIVE relative_names(_)
relative_names(files) ==
    IF Len(files) = 0 THEN <<>>
    ELSE (IF IsPrefix(<<"/", "dev">>, files[1].path) /\ Len(files[1].path) > 2
          THEN <<>>
          ELSE <<as_posix(SubSeq(files[1].path, Len(work_dir) + 1, Len(files[1].path)))>>)
         \o relative_names(Tail(files))

RECURSIVE posix_names(_)
posix_names(files) ==
    IF Len(files) = 0 THEN <<>>
    ELSE <<as_posix(files[1].path)>> \o posix_names(Tail(files))

(* the standard error ahead of the standard output *)
run_get_string_stderr_first(cmd) == Text(cmd.stderr) \o Text(cmd.stdout)

(* run_get_string: log.stdout.decode('utf8') + log.stderr.decode('utf8') *)
run_get_string(cmd) == Text(cmd.stdout) \o Text(cmd.stderr)

(* __run after __container_exec: the uploaded files, the downloaded results
   of a successful command, the finally that kills the container, and the
   lists of uploaded and downloaded files *)
run_finish ==
    /\ run.rpc = "exec_done"
    /\ \E downloads \in (IF run.cmd.exit_code = 0 THEN Downloads ELSE {<<>>}),
          download_raises \in (IF run.cmd.exit_code = 0 THEN BOOLEAN ELSE {FALSE}) :
       LET in_files == run.cmd.in_files \o run.in_files
           out_files == run.cmd.out_files \o downloads
       IN run' = IF download_raises
                 THEN [run EXCEPT !.rpc = "raised", !.container = "killed"]
                 ELSE
                 [run EXCEPT
                    !.rpc = "returned",
                    !.container = "killed",
                    !.cmd = [@ EXCEPT !.in_files = in_files, !.out_files = out_files],
                    !.upload_files = sorted(posix_names(run.env.uploads)),
                    !.download_files = sorted(relative_names(out_files)),
                    !.returns = IF run.env.buffer_output
                                THEN run_get_string(run.cmd) ELSE ""]
    /\ NoQuery

(* __run has returned or raised to a caller that keeps the ToolImage: the
   locals of the run are gone, the attributes of the tool stay *)
run_return ==
    /\ run.rpc \in {"returned", "raised"}
    /\ run' = [NewTool EXCEPT !.upload_files = run.upload_files,
                              !.download_files = run.download_files]
    /\ NoQuery

(* main that writes the log of every command, whatever its exit code *)
main_exit_always ==
    /\ run.rpc = "returned"
    /\ ~run.env.buffer_output
    /\ \E is_command_log \in BOOLEAN :
          /\ log' = IF is_command_log THEN write(log, run.cmd) ELSE log
          /\ run' = [rpc |-> "exited", exit_code |-> run.cmd.exit_code,
                      is_command_log |-> is_command_log, cmd |-> run.cmd]
    /\ UNCHANGED <<disk, pc, out, stack, already_covered, tree, hashed, cuts>>

(* main, sub-command run, after tool.run: the log is written for a command
   that succeeded when the configuration asks for the command log; the
   process exits with the exit code of the command *)
main_exit ==
    /\ run.rpc = "returned"
    /\ ~run.env.buffer_output
    /\ \E is_command_log \in BOOLEAN :
          /\ log' = IF run.cmd.exit_code = 0 /\ is_command_log
                     THEN write(log, run.cmd)
                     ELSE log
          /\ run' = [rpc |-> "exited", exit_code |-> run.cmd.exit_code,
                      is_command_log |-> is_command_log, cmd |-> run.cmd]
    /\ UNCHANGED <<disk, pc, out, stack, already_covered, tree, hashed, cuts>>

RunNext ==
    \/ ToolImage_init
    \/ run_start
    \/ run_return
    \/ main_exit
    \/ create_container
    \/ container_exec
    \/ select
    \/ handle_stdin
    \/ handle_socket
    \/ inspect
    \/ run_finish

RunSpec == RunInit /\ [][RunNext]_vars

----------------------------------------------------------------------------
(* The io loop of __container_exec with the container as a process of its
   own.  The socket holds at most SocketBuffer bytes on their way to the
   container and at most SocketBuffer frames on their way to the host; a
   send or a write that finds its buffer full waits.  The command in the
   container copies its standard input to its standard output, a byte at a
   time, and closes its stream when its input is closed and copied. *)
MaxInput == 4
SocketBuffer == 1

(* standard input of two byte values, to tell their order *)
Inputs == SeqsUpTo({"x", "y"}, MaxInput)

IoRun(stdin) ==
    [rpc |-> "select",
     env |-> [stdin |-> stdin, buffer_output |-> FALSE],
     stdin_left |-> stdin,
     active_streams |-> <<"socket", "stdin">>, select_in |-> <<>>, c_socket_open |-> TRUE,
     stdin_s |-> ToolStream, stdout_s |-> ToolStream, stderr_s |-> ToolStream,
     s_data |-> <<>>, out_off |-> 0, sent |-> <<>>, shut_wr |-> 0,
     to_c |-> <<>>, c_held |-> <<>>, from_c |-> <<>>, c_end |-> "open",
     cmd |-> NewLog]

IoInit ==
    /\ run \in {IoRun(stdin) : stdin \in Inputs}
    /\ log = <<>>
    /\ disk \in {d \in Disks : d[PathA] = ""}
    /\ pc = "idle"
    /\ out = FALSE
    /\ stack = <<>>
    /\ already_covered = {}
    /\ tree = {}
    /\ hashed = {}
    /\ cuts = {}

(* the streams of active_streams a select.select call can find readable:
   standard input, and the socket once a frame or the end of the stream is
   there to read *)
Readable ==
    (IF "stdin" \in Range(run.active_streams) THEN {"stdin"} ELSE {})
    \cup (IF run.from_c # <<>> \/ run.c_end # "open" THEN {"socket"} ELSE {})

(* select.select(active_streams, [], []): waits until a stream is readable *)
select_readable ==
    /\ run.rpc = "select"
    /\ run.c_socket_open
    /\ run.select_in = <<>>
    /\ \E S \in (SUBSET Readable) \ {{}} :
          run' = [run EXCEPT !.select_in = Restrict(run.active_streams, S)]
    /\ NoQuery

(* sel == sys.stdin: read a chunk; end of file closes the write half of the
   socket, a chunk is hashed and handed to the send loop *)
read_stdin ==
    /\ run.rpc = "select"
    /\ run.select_in # <<>>
    /\ Head(run.select_in) = "stdin"
    /\ IF run.stdin_left = <<>>
       THEN run' = [run EXCEPT !.select_in = Tail(@),
                               !.active_streams = Remove(@, "stdin"),
                               !.shut_wr = @ + 1]
       ELSE \E n \in 1..Len(run.stdin_left) :
               LET s_data == SubSeq(run.stdin_left, 1, n)
               IN run' = [run EXCEPT !.rpc = "send",
                                     !.select_in = Tail(@),
                                     !.stdin_left = SubSeq(@, n + 1, Len(@)),
                                     !.stdin_s = update(@, s_data),
                                     !.s_data = s_data,
                                     !.out_off = 0]
    /\ NoQuery

(* the send loop that takes up every chunk again from its first byte *)
send_restart ==
    /\ run.rpc = "send"
    /\ Len(run.to_c) < SocketBuffer
    /\ \E k \in 1..(SocketBuffer - Len(run.to_c)) :
          /\ k <= Len(run.s_data)
          /\ LET accepted == SubSeq(run.s_data, 1, k)
                 off == run.out_off + k
             IN run' = [run EXCEPT !.to_c = @ \o accepted,
                                   !.sent = @ \o accepted,
                                   !.out_off = off,
                                   !.rpc = IF off < Len(run.s_data) THEN "send" ELSE "select"]
    /\ NoQuery

(* one pass of `while out_off < len(s_data)`: c_socket_sock.send waits for
   room in the socket, then takes one byte or more of s_data[out_off:], as
   many as the room allows at most *)
send ==
    /\ run.rpc = "send"
    /\ Len(run.to_c) < SocketBuffer
    /\ \E k \in 1..(SocketBuffer - Len(run.to_c)) :
          /\ run.out_off + k <= Len(run.s_data)
          /\ LET accepted == SubSeq(run.s_data, run.out_off + 1, run.out_off + k)
                 off == run.out_off + k
             IN run' = [run EXCEPT !.to_c = @ \o accepted,
                                   !.sent = @ \o accepted,
                                   !.out_off = off,
                                   !.rpc = IF off < Len(run.s_data) THEN "send" ELSE "select"]
    /\ NoQuery

(* sel == c_socket_sock: the next frame of the socket, or its end *)
read_socket ==
    /\ run.rpc = "select"
    /\ run.select_in # <<>>
    /\ Head(run.select_in) = "socket"
    /\ LET u == unpack_container_stream(run.from_c, run.c_end)
       IN IF u.raised
          THEN run' = [run EXCEPT !.rpc = "raised"]
          ELSE IF u.s_data = <<>>
          THEN run' = [run EXCEPT !.select_in = Tail(@),
                                  !.from_c = IF @ = <<>> THEN @ ELSE Tail(@),
                                  !.c_socket_open = FALSE]
          ELSE run' = [run EXCEPT
                         !.select_in = Tail(@),
                         !.from_c = Tail(@),
                         !.stdout_s = IF u.s_type = 1
                                      THEN deliver(@, u.s_data, run.env.buffer_output) ELSE @,
                         !.stderr_s = IF u.s_type = 2
                                      THEN deliver(@, u.s_data, run.env.buffer_output) ELSE @]
    /\ NoQuery

(* after the loop: exec_inspect and the stream records *)
exec_inspect ==
    /\ run.rpc = "select"
    /\ ~run.c_socket_open
    /\ run.select_in = <<>>
    /\ \E exit_code \in ExitCodes :
       LET h == collect_hashes(exit_code, run.stdin_s, run.stdout_s, run.stderr_s)
       IN run' = [run EXCEPT
                    !.rpc = "exec_done",
                    !.cmd = [@ EXCEPT !.exit_code = exit_code,
                                      !.in_files = h.in_files,
                                      !.out_files = h.out_files]]
    /\ NoQuery

(* the command reads a byte of its standard input *)
container_read ==
    /\ run.rpc \in {"select", "send"}
    /\ run.c_end = "open"
    /\ run.c_held = <<>>
    /\ run.to_c # <<>>
    /\ run' = [run EXCEPT !.c_held = <<Head(run.to_c)>>, !.to_c = Tail(@)]
    /\ NoQuery

(* the command writes the byte to its standard output: a frame of type 1,
   once the socket has room for it *)
container_write ==
    /\ run.rpc \in {"select", "send"}
    /\ run.c_held # <<>>
    /\ Len(run.from_c) < SocketBuffer
    /\ run' = [run EXCEPT !.from_c = Append(@, [type |-> 1, data |-> run.c_held]),
                          !.c_held = <<>>]
    /\ NoQuery

(* the command has read the end of its input and written all it read: its
   stream ends, cleanly or, with the connection lost, inside a frame *)
container_close ==
    /\ run.rpc \in {"select", "send"}
    /\ run.c_end = "open"
    /\ run.shut_wr > 0
    /\ run.to_c = <<>>
    /\ run.c_held = <<>>
    /\ \E ending \in Endings : run' = [run EXCEPT !.c_end = ending]
    /\ NoQuery

IoNext ==
    \/ select_readable
    \/ read_stdin
    \/ send
    \/ read_socket
    \/ exec_inspect
    \/ container_read
    \/ container_write
    \/ container_close

IoSpec == IoInit /\ [][IoNext]_vars

----------------------------------------------------------------------------
(* Reading a dependency tree *)

Root == CHOOSE n \in tree : n.pos = <<>>
FileNodes == {n \in tree : n.kind = "file"}
CommandNodes == {n \in tree : n.kind = "cmd"}
IsChild(c, p) == Len(c.pos) = Len(p.pos) + 1 /\ SubSeq(c.pos, 1, Len(p.pos)) = p.pos
Children(p) == {c \in tree : IsChild(c, p)}
ChildAt(p, k) == CHOOSE c \in tree : c.pos = Append(p.pos, k)
WellIndexed(p) == \A c \in Children(p) : c.pos[Len(c.pos)] \in 1..Cardinality(Children(p))
Done(o) == pc = "done" /\ out = o

Entries == 1..Len(log)
Produces(i, d) == \E k \in DOMAIN log[i].out_files : log[i].out_files[k].md5 = d
Consumes(i, d) == \E k \in DOMAIN log[i].in_files : log[i].in_files[k].md5 = d
(* the entries a node of digest d is matched with, in the direction o *)
Matches(i, d, o) == IF o THEN Consumes(i, d) ELSE Produces(i, d)

----------------------------------------------------------------------------
(* C1: fanin and fanout terminate on every finite Store, cycles included.
   Every step of a running query strictly decreases a natural number: the
   keys not yet in already_covered weigh one full scan of the Store each,
   and every frame on the stack weighs the steps left in it. *)
AllKeys == {file_check_of(p, d) : p \in Paths, d \in Digests}
IterCost == 2 * MaxFiles + 2
ScanCost == Len(log) * IterCost + 1
Remaining(f) ==
    CASE f.phase = "enter" -> 1
      [] f.phase = "scan" -> (Len(log) + 1 - f.ci) * IterCost + 1
      [] f.phase = "files" ->
            2 * (Len(NextFiles(scan_order[f.ci], out)) + 1 - f.fi) + 1
            + (Len(log) - f.ci) * IterCost + 1
RECURSIVE StackCost(_)
StackCost(st) == IF Len(st) = 0 THEN 0 ELSE Remaining(st[1]) + StackCost(Tail(st))
Variant == Cardinality(AllKeys \ already_covered) * ScanCost + StackCost(stack)

QueryStep == Enter \/ Scan \/ Descend

C1_Terminates ==
    /\ [](pc = "query" => ENABLED QueryStep)
    /\ [][pc = "query" => /\ Variant' < Variant
                          /\ Variant' >= 0
                          /\ already_covered' \subseteq AllKeys]_vars

(* a query over two entries that each consume a digest the other produces
   has returned, both entries are in the tree and the visited check has cut *)
C1_Witness ==
    /\ pc = "done"
    /\ cuts # {}
    /\ \E i, j \in Entries :
          /\ i # j
          /\ \E d \in Digests : Produces(i, d) /\ Consumes(j, d)
          /\ \E d \in Digests : Produces(j, d) /\ Consumes(i, d)
          /\ \E n, m \in CommandNodes : n.command = i /\ m.command = j

----------------------------------------------------------------------------
(* C2: the entries in the tree of fanin are exactly the entries that
   transitively contributed to the anchor digest *)
RECURSIVE Closure(_)
Closure(S) ==
    LET T == S \cup {i \in Entries : \E j \in S : \E k \in DOMAIN log[j].in_files :
                                        Produces(i, log[j].in_files[k].md5)}
    IN IF T = S THEN S ELSE Closure(T)
Contributors(d) == Closure({i \in Entries : Produces(i, d)})

C2_Contributors ==
    Done(FALSE) => {n.command : n \in CommandNodes} = Contributors(Root.digest)

(* C3: direction symmetry: an entry with input digest Da and output digest Db
   is a child of the anchor of fanout(Da) with a file of digest Db beneath it,
   and a child of the anchor of fanin(Db) with a file of digest Da beneath it *)
Beneath(i, d) ==
    \E c \in Children(Root) : c.command = i /\ \E f \in Children(c) : f.digest = d

C3_Symmetry ==
    \A i \in Entries : \A a \in DOMAIN log[i].in_files : \A b \in DOMAIN log[i].out_files :
        LET Da == log[i].in_files[a].md5
            Db == log[i].out_files[b].md5
        IN /\ (Done(TRUE) /\ Root.digest = Da) => Beneath(i, Db)
           /\ (Done(FALSE) /\ Root.digest = Db) => Beneath(i, Da)

(* C4: digest-exactness: every CommandNode under a FileNode of digest d wraps
   an entry that holds a record of digest exactly d in the matched collection *)
C4_DigestExact ==
    \A f \in FileNodes : \A c \in Children(f) : Matches(c.command, f.digest, out)

(* an entry that holds the anchor's path at another digest only stayed out of
   a tree that attached another entry *)
C4_Witness ==
    /\ pc = "done"
    /\ Children(Root) # {}
    /\ \E i \in Entries :
          /\ ~Matches(i, Root.digest, out)
          /\ \E k \in DOMAIN MatchFiles(i, out) :
                work_path(MatchFiles(i, out)[k].path) = Root.file

(* C5: fanin attaches under the anchor every entry that produced the anchor
   digest, whatever the path it produced it at *)
C5_AllProducers ==
    Done(FALSE) => \A i \in Entries :
        Produces(i, Root.digest) => \E c \in Children(Root) : c.command = i

(* two entries produced the anchor digest, one of them at another path only *)
C5_Witness ==
    /\ Done(FALSE)
    /\ \E i, j \in Entries :
          /\ i # j
          /\ Produces(i, Root.digest) /\ Produces(j, Root.digest)
          /\ \A k \in DOMAIN log[i].out_files : work_path(log[i].out_files[k].path) # Root.file
          /\ \E k \in DOMAIN log[j].out_files : work_path(log[j].out_files[k].path) = Root.file
          /\ \E c \in Children(Root) : c.command = i

(* C6: leaf correctness: a query whose anchor digest no entry matches
   returns the anchor alone *)
C6_Leaf ==
    (pc = "done" /\ \A i \in Entries : ~Matches(i, Root.digest, out)) => tree = {Root}

(* the Store is not empty and the anchor carries a content digest *)
C6_Witness ==
    /\ pc = "done"
    /\ Len(log) = MaxEntries
    /\ Root.digest # ""
    /\ \A i \in Entries : ~Matches(i, Root.digest, out)
    /\ tree = {Root}

(* C7: a file whose digest is the empty string is a leaf in every Store *)
C7_EmptyDigestLeaf ==
    pc = "done" => \A f \in FileNodes : f.digest = "" => Children(f) = {}

(* C8 as stated: the CommandNode children of every FileNode are all the
   matching entries, most recently appended first, and the FileNode children
   of every CommandNode follow the order of the entry's file collection *)
ReverseMatches(d, o) ==
    LET rev == [k \in 1..Len(log) |-> Len(log) + 1 - k]
        Test(i) == Matches(i, d, o)
    IN SelectSeq(rev, Test)

CommandsOf(f) == [k \in 1..Cardinality(Children(f)) |-> ChildAt(f, k).command]

AllMatchesInReverse(f) == WellIndexed(f) /\ CommandsOf(f) = ReverseMatches(f.digest, out)

FilesFollow(c) ==
    LET files == IF out THEN log[c.command].out_files ELSE log[c.command].in_files
    IN /\ WellIndexed(c)
       /\ Cardinality(Children(c)) = Len(files)
       /\ \A k \in 1..Len(files) :
             /\ ChildAt(c, k).kind = "file"
             /\ ChildAt(c, k).file = work_path(files[k].path)
             /\ files[k].md5 # "" => ChildAt(c, k).digest = files[k].md5

C8_EveryFileNode ==
    pc = "done" => /\ \A f \in FileNodes : AllMatchesInReverse(f)
                   /\ \A c \in CommandNodes : FilesFollow(c)

(* C8 amended: the CommandNode children of every FileNode that the visited
   check did not cut are all the matching entries, most recently appended
   first; a FileNode returned by the visited check has no children; the
   FileNode children of every CommandNode follow the entry's file collection *)
C8_ExpandedFileNodes ==
    pc = "done" => /\ \A f \in FileNodes :
                         IF f.pos \in cuts THEN Children(f) = {} ELSE AllMatchesInReverse(f)
                   /\ \A c \in CommandNodes : FilesFollow(c)

(* two entries under one FileNode, two different files under one CommandNode,
   and a cut FileNode whose digest entries of the Store match *)
C8_Witness ==
    /\ pc = "done"
    /\ \E f \in FileNodes : f.pos \notin cuts /\ Cardinality(Children(f)) = 2
    /\ \E c \in CommandNodes : \E x, y \in Children(c) : x.digest # y.digest
    /\ \E f \in FileNodes : f.pos \in cuts /\ \E i \in Entries : Matches(i, f.digest, out)

(* C9: the steps of a query, the one the CLI sub-commands start included,
   leave the Store as it was: same entries, same order, same file records *)
C9_StoreUnchanged == [][(pc = "query" \/ pc' = "query") => log' = log]_vars

(* a query over a full Store has descended into an entry's files and returned *)
C9_Witness ==
    /\ pc = "done"
    /\ Len(log) = MaxEntries
    /\ \E c \in CommandNodes : Children(c) # {}

----------------------------------------------------------------------------
(* What a run took in, read from its inputs and from what is left of them *)

StdinRead == SubSeq(run.env.stdin, 1, Len(run.env.stdin) - Len(run.stdin_left))
FramesRead == SubSeq(run.env.frames, 1, Len(run.env.frames) - Len(run.frames_left))

RECURSIVE Payload(_, _)
Payload(frames, type) ==
    IF Len(frames) = 0 THEN <<>>
    ELSE (IF frames[1].type = type THEN frames[1].data ELSE <<>>) \o Payload(Tail(frames), type)

HasRecord(files, path, md5) == \E k \in DOMAIN files : files[k] = FileLog(path, md5)
HasPath(files, path) == \E k \in DOMAIN files : files[k].path = path

(* C10 as stated: the entry of every command run holds a /dev/stdin record
   with the digest of the bytes read whenever standard input was not empty,
   and /dev/stdout and /dev/stderr records whenever the stream carried a byte *)
C10_EveryRun ==
    run.rpc = "returned" =>
        /\ run.env.stdin # <<>> => HasRecord(run.cmd.in_files, PathStdin, hexdigest(StdinRead))
        /\ Payload(run.env.frames, 1) # <<>> => HasPath(run.cmd.out_files, PathStdout)
        /\ Payload(run.env.frames, 2) # <<>> => HasPath(run.cmd.out_files, PathStderr)

(* C10 amended: the entry of every command run that returns with exit code 0
   holds a /dev/stdin record with the digest of the bytes read whenever the
   run reads standard input and read at least one byte of it, a /dev/stdout
   record with the digest of the received bytes whenever standard output is
   not the output archive and the io loop received a stdout payload byte, and
   a /dev/stderr record likewise whenever the loop received a stderr byte *)
C10_SuccessfulRun ==
    (run.rpc = "returned" /\ run.cmd.exit_code = 0) =>
        /\ (run.env.read_stdin /\ StdinRead # <<>>)
              => HasRecord(run.cmd.in_files, PathStdin, hexdigest(StdinRead))
        /\ (run.env.write_stdout /\ Payload(FramesRead, 1) # <<>>)
              => HasRecord(run.cmd.out_files, PathStdout, hexdigest(Payload(FramesRead, 1)))
        /\ Payload(FramesRead, 2) # <<>>
              => HasRecord(run.cmd.out_files, PathStderr, hexdigest(Payload(FramesRead, 2)))

(* a successful run that read two chunks of input and received both streams *)
C10_Witness ==
    /\ run.rpc = "returned"
    /\ run.cmd.exit_code = 0
    /\ Len(StdinRead) = MaxStdin
    /\ run.stdin_left = <<>>
    /\ HasRecord(run.cmd.in_files, PathStdin, hexdigest(StdinRead))
    /\ HasPath(run.cmd.out_files, PathStdout)
    /\ HasPath(run.cmd.out_files, PathStderr)

----------------------------------------------------------------------------
(* C11 as stated: every command run that completes appends exactly one entry
   to the Store, whatever its exit code *)
AppendsOne ==
    /\ Len(log') = Len(log) + 1
    /\ SubSeq(log', 1, Len(log)) = log
    /\ log'[Len(log')].in_files = run.cmd.in_files
    /\ log'[Len(log')].out_files = run.cmd.out_files

Completes == run.rpc = "returned" /\ run'.rpc = "exited"

C11_EveryRun == [][Completes => AppendsOne]_vars

(* C11 amended: a command run of the run sub-command that completes with
   exit code 0 while the configuration enables the command log appends
   exactly one entry to the Store, with the run's file records; a run that
   completes with another exit code, or with the command log disabled,
   leaves the Store as it was *)
C11_SuccessfulRun ==
    [][Completes => IF run'.exit_code = 0 /\ run'.is_command_log
                    THEN AppendsOne
                    ELSE log' = log]_vars

(* a successful run that read standard input and downloaded files has
   completed and its entry is in the Store *)
C11_Witness ==
    /\ run.rpc = "exited"
    /\ run.exit_code = 0
    /\ run.is_command_log
    /\ Len(log) = 1
    /\ HasPath(log[1].in_files, PathStdin)
    /\ HasPath(log[1].out_files, PathA)

----------------------------------------------------------------------------
(* C13: ToolImage(image, pull=True) for an image the registry does not hold
   ends the program with SystemExit of code 1 *)
C13_PullNotFoundExits ==
    (run.rpc = "init_raised" /\ run.pull /\ ~run.remote) => run.exception = "SystemExit(1)"

----------------------------------------------------------------------------
(* C14 as stated: after every run upload_files is the sorted list of the host
   files uploaded for that run and download_files the sorted list of the
   work-directory-relative paths of that run's output files, the /dev/
   records left out *)
IsDev(path) == Len(path) > 2 /\ path[1] = "/" /\ path[2] = "dev"
UploadNames == {as_posix(run.env.uploads[k].path) : k \in DOMAIN run.env.uploads}
DownloadNames ==
    {JoinParts(SubSeq(run.cmd.out_files[k].path, Len(work_dir) + 1, Len(run.cmd.out_files[k].path))) :
        k \in {j \in DOMAIN run.cmd.out_files : ~IsDev(run.cmd.out_files[j].path)}}
IsSortedListOf(l, S) ==
    /\ {l[k] : k \in DOMAIN l} = S
    /\ \A i, j \in DOMAIN l : i < j => StringRank(l[i]) < StringRank(l[j])

ListsOfThisRun ==
    /\ IsSortedListOf(run.upload_files, UploadNames)
    /\ IsSortedListOf(run.download_files, DownloadNames)

C14_EveryRun == run.rpc \in {"returned", "raised"} => ListsOfThisRun

(* C14 amended: after every run that returns, upload_files is the sorted
   list of the host files uploaded for that run and download_files the sorted
   list of the work-directory-relative paths of that run's output files, the
   /dev/ records left out; both describe that run, not an earlier one; a run
   that ends by an exception leaves both lists as they were before it *)
C14_ReturnedRun ==
    /\ run.rpc = "returned" => ListsOfThisRun
    /\ run.rpc = "raised" => /\ run.upload_files = run.before.upload_files
                             /\ run.download_files = run.before.download_files

(* a run with two uploads and a standard output record as its only output
   has returned on a tool whose run before uploaded nothing and downloaded
   two files *)
C14_Witness ==
    /\ run.rpc = "returned"
    /\ Len(run.upload_files) = 2
    /\ run.download_files = <<>>
    /\ HasPath(run.cmd.out_files, PathStdout)
    /\ run.before.upload_files = <<>>
    /\ Len(run.before.download_files) = 2

----------------------------------------------------------------------------
(* C15 as stated: run_get_string returns all the bytes the container wrote to
   its standard output, then all the bytes it wrote to its standard error,
   and writes none of them to the host's streams *)
HostWritten(s) == IF s.none THEN <<>> ELSE s.stream

NothingToHost == HostWritten(run.stdout_s) = <<>> /\ HostWritten(run.stderr_s) = <<>>

C15_AllBytes ==
    (run.rpc = "returned" /\ run.env.buffer_output) =>
        /\ run.returns = Text(Payload(run.env.frames, 1) \o Payload(run.env.frames, 2))
        /\ NothingToHost

(* C15 amended: run_get_string returns the standard output bytes the io loop
   received, none when standard output is the output archive, then the
   standard error bytes it received, up to the end of the stream or the first
   frame with an empty payload, whatever the interleaving of the frames and
   the exit code; in that mode nothing is written to the host's streams *)
C15_ReceivedBytes ==
    (run.rpc = "returned" /\ run.env.buffer_output) =>
        /\ run.returns = Text((IF run.env.write_stdout THEN Payload(FramesRead, 1) ELSE <<>>)
                              \o Payload(FramesRead, 2))
        /\ NothingToHost

(* a failed command whose standard error frame came before its standard
   output frame *)
C15_Witness ==
    /\ run.rpc = "returned"
    /\ run.env.buffer_output
    /\ run.cmd.exit_code = 1
    /\ Len(run.env.frames) = 2
    /\ run.env.frames[1].type = 2
    /\ run.env.frames[2].type = 1
    /\ run.returns = "oe"

----------------------------------------------------------------------------
(* the nodes of a tree in the order a depth-first walk meets them *)
PosBefore(p, q) ==
    \/ Len(p) < Len(q) /\ SubSeq(q, 1, Len(p)) = p
    \/ \E i \in 1..Len(p) : /\ i <= Len(q)
                            /\ SubSeq(p, 1, i - 1) = SubSeq(q, 1, i - 1)
                            /\ p[i] < q[i]
Preorder(n) == 1 + Cardinality({m \in tree : PosBefore(m.pos, n.pos)})
Parent(n) == CHOOSE p \in tree : IsChild(n, p)

RECURSIVE Margin(_)
Margin(k) == IF k = 0 THEN "" ELSE "    " \o Margin(k - 1)

Label(n) ==
    IF n.kind = "cmd" THEN "tool " \o ToString(n.command)
    ELSE IF n.digest = "" THEN JoinParts(n.file) \o "/"
    ELSE JoinParts(n.file) \o " " \o n.digest

(* C12: rendering a tree yields one line per node: the root's line is its
   label, a node with no children renders as its label alone, and the line of
   every other node is its label behind the connector of its parent, behind
   four spaces for every level between it and the children of the root *)
C12_OneLinePerNode ==
    pc = "done" =>
        LET lines == str(tree, Root)
        IN /\ Len(lines) = Cardinality(tree)
           /\ lines[1] = Label(Root)
           /\ \A n \in tree : Children(n) = {} => str(tree, n) = <<Label(n)>>
           /\ \A n \in tree \ {Root} :
                 lines[Preorder(n)] = Margin(Len(n.pos) - 1) \o connector(Parent(n)) \o Label(n)

(* a tree four levels deep with a node of two children, one of them a file
   without a digest *)
C12_Witness ==
    /\ pc = "done"
    /\ \E n \in tree : Len(n.pos) = 3
    /\ \E n \in tree : Cardinality(Children(n)) = 2
    /\ \E n \in FileNodes : n.digest = "" /\ n # Root

----------------------------------------------------------------------------
(* the visitation key of a FileNode, and the keys of the anchor and of the
   file records of the Store *)
AbsPath(n) == CHOOSE p \in Paths : work_path(p) = n.file
NodeKey(n) == file_check_of(AbsPath(n), n.digest)
KeysOf(files) == {file_check_of(files[k].path, files[k].md5) : k \in DOMAIN files}
RecordKeys == UNION {KeysOf(log[i].in_files) \cup KeysOf(log[i].out_files) : i \in Entries}
Expanded == {f \in FileNodes : Children(f) # {}}

(* C16: within one traversal at most one FileNode per (path, digest) key has
   children: every FileNode that a depth-first walk meets after another of
   the same key was returned by the visited check and has no children; the
   FileNodes with children are no more than the distinct keys of the anchor
   and of the file records of the Store *)
C16_ExpandedOnce ==
    pc = "done" =>
        /\ \A f, g \in FileNodes :
              (NodeKey(f) = NodeKey(g) /\ PosBefore(f.pos, g.pos)) =>
                  /\ g.pos \in cuts
                  /\ Children(g) = {}
        /\ \A f, g \in Expanded : NodeKey(f) = NodeKey(g) => f = g
        /\ tree # {} =>
              Cardinality(Expanded) <= Cardinality(RecordKeys \cup {NodeKey(Root)})

(* a finished query met one key three times and expanded two keys *)
C16_Witness ==
    /\ pc = "done"
    /\ Cardinality(Expanded) = 2
    /\ \E f, g, h \in FileNodes :
          /\ NodeKey(f) = NodeKey(g) /\ NodeKey(g) = NodeKey(h)
          /\ PosBefore(f.pos, g.pos) /\ PosBefore(g.pos, h.pos)
          /\ Children(f) # {}

----------------------------------------------------------------------------
(* C17: the digest of every file reached through an entry is the digest
   recorded in that entry, the empty one included; only the anchor of a query
   without a digest is hashed *)
RecordOf(f) == NextFiles(Parent(f).command, out)[f.pos[Len(f.pos)]]

C17_NoRehash ==
    /\ \A f \in FileNodes : f.pos # <<>> => f.digest = RecordOf(f).md5
    /\ tree # {} => hashed \subseteq {AbsPath(Root)}

----------------------------------------------------------------------------
(* C18: fanout is the mirror of fanin: the tree of a query is the tree of the
   query in the other direction over the Store with the input and output
   files of every entry swapped, same nodes at the same positions cut at the
   same places, with the direction flag of every node flipped *)
Swap(entries) ==
    [i \in DOMAIN entries |-> [in_files |-> entries[i].out_files, out_files |-> entries[i].in_files]]
Flip(nodes) == {[n EXCEPT !.out = ~n.out] : n \in nodes}
Cut(nodes) ==
    {n.pos : n \in {m \in nodes : m.kind = "file" /\ \E e \in nodes :
                        e.kind = "file" /\ e.file = m.file /\ e.digest = m.digest
                        /\ PosBefore(e.pos, m.pos)}}

C18_Mirror ==
    pc = "done" =>
        LET mirror == fan(~out, Swap(log), AbsPath(Root), Root.digest, <<>>, {}).nodes
        IN /\ tree = Flip(mirror)
           /\ cuts = Cut(mirror)

(* a fanout tree and a fanin tree, each with an entry of two files on the
   side descended into and a cut node *)
C18_Witness ==
    /\ pc = "done"
    /\ cuts # {}
    /\ \E c \in CommandNodes : Cardinality(Children(c)) = 2
    /\ \E i \in Entries : log[i].in_files # log[i].out_files

----------------------------------------------------------------------------
(* C19: the result of a query is a function of the Store, the files and the
   anchor alone: whatever queries ran before it, the tree is the one the
   recursive function builds from an empty visited set *)
C19_QueryLocal ==
    pc = "done" => tree = fan(out, log, AbsPath(Root), Root.digest, <<>>, {}).nodes

(* a finished query that cut a node leaves a visited set of two keys, and
   the next query starts from this state *)
C19_Witness ==
    /\ pc = "done"
    /\ cuts # {}
    /\ Cardinality(already_covered) = 2
    /\ \E c \in CommandNodes : Children(c) # {}
    /\ ENABLED Query(out, AbsPath(Root), Root.digest)

----------------------------------------------------------------------------
(* C20: every tree returned alternates node kinds: the root is a FileNode,
   the children of a FileNode are CommandNodes, the children of a CommandNode
   are FileNodes, one per record of the entry's input files (fanin) or output
   files (fanout), in their order *)
C20_Alternates ==
    pc = "done" =>
        /\ Root.kind = "file"
        /\ \A n \in tree : n.pos = <<>> => n = Root
        /\ \A n \in tree \ {Root} : \E p \in tree : IsChild(n, p)
        /\ \A f \in FileNodes : \A c \in Children(f) : c.kind = "cmd"
        /\ \A c \in CommandNodes :
              /\ \A f \in Children(c) : f.kind = "file"
              /\ {f.pos[Len(f.pos)] : f \in Children(c)} = 1..Len(NextFiles(c.command, out))
              /\ Cardinality(Children(c)) = Len(NextFiles(c.command, out))

(* a tree with a FileNode under a CommandNode under a FileNode under a
   CommandNode, and a CommandNode of two files *)
C20_Witness ==
    /\ pc = "done"
    /\ \E n \in FileNodes : Len(n.pos) = 4
    /\ \E c \in CommandNodes : Cardinality(Children(c)) = 2

----------------------------------------------------------------------------
(* C21: every node of a tree of fanin carries out = FALSE and every node of
   a tree of fanout out = TRUE, so the connector __str__ puts before the
   lines of a node's children is, for every node of a fanin tree, one of the
   two that begin with "^" and, for every node of a fanout tree, one of the
   two that begin with "|" *)
Connectors(o) == IF o THEN {"|-- ", "|-->"} ELSE {"^-- ", "^---"}

C21_OneDirection ==
    pc = "done" =>
        /\ \A n \in tree : n.out = out
        /\ \A n \in tree : connector(n) \in Connectors(out)
        /\ \A n \in tree : connector(n) \notin Connectors(~out)

(* a fanout tree with a command under a file under a command *)
C21_Witness ==
    /\ Done(TRUE)
    /\ \E c \in CommandNodes : Len(c.pos) = 3

----------------------------------------------------------------------------
(* C22: the FileDependency of a path that starts with /dev/ keeps the path
   unchanged; that of any other path holds the path relative to the working
   directory when the path lies under it, and the resolved absolute path
   otherwise *)
NodeAt(pos) == CHOOSE n \in tree : n.pos = pos

C22_WorkPath ==
    (pc = "query" /\ Top.phase = "scan") =>
        LET path == Top.file
            shown == NodeAt(Top.pos).file
        IN IF IsDev(path) THEN shown = path
           ELSE IF IsPrefix(work_dir, path)
                THEN work_dir \o shown = path /\ (shown = <<>> \/ shown[1] # "/")
                ELSE shown = resolve(path) /\ shown[1] = "/"

(* a fanin tree with the work file at its root, shown relative, above a file
   outside the working directory, shown absolute, and standard output *)
C22_Witness ==
    /\ Done(FALSE)
    /\ Root.file = <<"a">>
    /\ \E n \in FileNodes : n.file = <<"/", "a", "w">>
    /\ \E n \in FileNodes : n.file = PathStdout

----------------------------------------------------------------------------
(* C23: when a run returns or raises, the container it started has been
   killed *)
C23_ContainerKilled ==
    run.rpc \in {"returned", "raised"} => run.container # "running"

----------------------------------------------------------------------------
(* C25: when the io loop of a run that takes the standard output has ended,
   every frame of the container's stream has been read, and the payload bytes
   of all its type-1 frames have reached the standard output and of all its
   type-2 frames the standard error, in order *)
Received(s) == IF s.none THEN <<>> ELSE s.raw \o s.stream

C25_EveryFrame ==
    (run.rpc = "exec_done" /\ run.env.write_stdout) =>
        /\ run.frames_left = <<>>
        /\ Received(run.stdout_s) = Payload(run.env.frames, 1)
        /\ Received(run.stderr_s) = Payload(run.env.frames, 2)

----------------------------------------------------------------------------
(* C24: the host never waits on the send of a chunk of standard input while
   the container waits for the host to read its pending output *)
HostWaitsOnSend == run.rpc = "send" /\ Len(run.to_c) = SocketBuffer
ContainerWaitsOnHost == run.c_held # <<>> /\ Len(run.from_c) = SocketBuffer

C24_NoMutualWait == ~(HostWaitsOnSend /\ ContainerWaitsOnHost)

----------------------------------------------------------------------------
(* C26: a container stream that ends inside a frame, in the header or in the
   payload, is never taken for a clean end of the stream: the loop does not
   end on it and the run does not go on to its result *)
C26_TruncatedFails ==
    run.c_end \in {"cut_header", "cut_payload"} =>
        run.c_socket_open /\ run.rpc # "exec_done"

----------------------------------------------------------------------------
(* C27: the bytes sent to the container are, in order and once each, the
   bytes read from standard input, less the rest of the chunk the send loop
   is busy with, and all of them whenever the loop is not sending; the
   /dev/stdin record holds the digest of exactly the bytes sent; the write
   half of the socket is shut down at most once, and from then on standard
   input is not selected or read again and nothing more is sent *)
Unsent == SubSeq(run.s_data, run.out_off + 1, Len(run.s_data))

StdinClosed ==
    /\ "stdin" \notin Range(run.active_streams)
    /\ "stdin" \notin Range(run.select_in)
    /\ run.stdin_left = <<>>
    /\ run.rpc # "send"

C27_SentOnce ==
    /\ [](/\ run.sent \o Unsent = StdinRead
          /\ run.rpc # "send" => Unsent = <<>>
          /\ run.rpc = "exec_done" =>
                \A k \in DOMAIN run.cmd.in_files :
                   run.cmd.in_files[k].path = PathStdin =>
                      /\ run.cmd.in_files[k].md5 = hexdigest(run.sent)
                      /\ Len(run.cmd.in_files) = 1
          /\ run.shut_wr <= 1
          /\ run.shut_wr = 1 => StdinClosed)
    /\ [][run.shut_wr = 1 => (run'.sent = run.sent /\ run'.shut_wr = 1)]_vars

(* a successful run whose standard input came as one chunk larger than the
   socket takes at once, sent in parts, then the end of file *)
C27_Witness ==
    /\ run.rpc = "exec_done"
    /\ run.cmd.exit_code = 0
    /\ Len(run.s_data) > SocketBuffer
    /\ run.s_data = run.env.stdin
    /\ run.sent = run.env.stdin
    /\ run.shut_wr = 1
    /\ HasRecord(run.cmd.in_files, PathStdin, hexdigest(run.env.stdin))

====
